---- MODULE Spec2Model ----
(***************************************************************************)
(* PEP 425 tag handling of pex (src/pex/pep425.py).                        *)
(*                                                                         *)
(* Python strings are modelled as sequences of one-character strings, so   *)
(* that split, join, replace, startswith, int() and %d formatting are      *)
(* computed character by character as the code computes them.              *)
(***************************************************************************)
EXTENDS Integers, Sequences, FiniteSets, TLC

(***************************************************************************)
(* String literals of the source.                                          *)
(***************************************************************************)
s_macosx == <<"m", "a", "c", "o", "s", "x">>
s_any == <<"a", "n", "y">>
s_none == <<"n", "o", "n", "e">>
s_py == <<"p", "y">>
s_cp == <<"c", "p">>
s_pp == <<"p", "p">>
s_jy == <<"j", "y">>
s_ip == <<"i", "p">>
s_abi3 == <<"a", "b", "i", "3">>
s_x86_64 == <<"x", "8", "6", "_", "6", "4">>
s_i386 == <<"i", "3", "8", "6">>
s_ppc64 == <<"p", "p", "c", "6", "4">>
s_ppc == <<"p", "p", "c">>
s_arm64 == <<"a", "r", "m", "6", "4">>
s_intel == <<"i", "n", "t", "e", "l">>
s_fat64 == <<"f", "a", "t", "6", "4">>
s_fat32 == <<"f", "a", "t", "3", "2">>
s_fat == <<"f", "a", "t">>
s_universal2 == <<"u", "n", "i", "v", "e", "r", "s", "a", "l", "2">>
s_universal == <<"u", "n", "i", "v", "e", "r", "s", "a", "l">>
s_dmu == <<"d", "m", "u">>
s_dm == <<"d", "m">>
s_du == <<"d", "u">>
s_d == <<"d">>
s_mu == <<"m", "u">>
s_m == <<"m">>
s_u == <<"u">>
s_blah == <<"b", "l", "a", "h">>
s_linux_x86_64 == <<"l", "i", "n", "u", "x", "_", "x", "8", "6", "_", "6", "4">>
s_linux_raw == <<"l", "i", "n", "u", "x", "-", "x", "8", "6", "_", "6", "4">>

(***************************************************************************)
(* Python built-ins used by the source.                                    *)
(***************************************************************************)
Digits == <<"0", "1", "2", "3", "4", "5", "6", "7", "8", "9">>

DigitValue(c) == (CHOOSE k \in 1..10 : Digits[k] = c) - 1

IsDigit(c) == \E k \in 1..10 : Digits[k] = c

\* str.startswith(prefix)
startswith(s, prefix) ==
  /\ Len(s) >= Len(prefix)
  /\ SubSeq(s, 1, Len(prefix)) = prefix

\* str.replace(old, new) for one-character old and new
replace(s, old, new) ==
  [k \in 1..Len(s) |-> IF s[k] = old THEN new ELSE s[k]]

\* str.split(sep, maxsplit) for a one-character sep: at most maxsplit cuts,
\* made at the leftmost separators; the remainder is kept whole
RECURSIVE split(_, _, _)
split(s, sep, maxsplit) ==
  IF maxsplit = 0 \/ ~(\E k \in 1..Len(s) : s[k] = sep)
  THEN <<s>>
  ELSE LET k == CHOOSE j \in 1..Len(s) :
                  /\ s[j] = sep
                  /\ \A h \in 1..(j - 1) : s[h] # sep
       IN  <<SubSeq(s, 1, k - 1)>> \o split(SubSeq(s, k + 1, Len(s)), sep, maxsplit - 1)

\* sep.join(parts)
RECURSIVE join(_, _)
join(sep, parts) ==
  IF Len(parts) = 0 THEN <<>>
  ELSE IF Len(parts) = 1 THEN parts[1]
  ELSE parts[1] \o sep \o join(sep, Tail(parts))

\* int(s) succeeds: an optional sign followed by one or more decimal digits
\* (over the alphabet of the model: no whitespace, no inner underscores)
IsIntLiteral(s) ==
  LET body == IF Len(s) > 0 /\ s[1] \in {"-", "+"} THEN Tail(s) ELSE s
  IN  /\ Len(body) > 0
      /\ \A k \in 1..Len(body) : IsDigit(body[k])

RECURSIVE DecimalValue(_)
DecimalValue(ds) ==
  IF Len(ds) = 0 THEN 0
  ELSE 10 * DecimalValue(SubSeq(ds, 1, Len(ds) - 1)) + DigitValue(ds[Len(ds)])

\* int(s), defined where IsIntLiteral(s)
int(s) ==
  IF s[1] = "-" THEN 0 - DecimalValue(Tail(s))
  ELSE IF s[1] = "+" THEN DecimalValue(Tail(s))
  ELSE DecimalValue(s)

\* '%d' % n and '{}'.format(n) for an integer n
RECURSIVE NatToStr(_)
NatToStr(n) ==
  IF n < 10 THEN <<Digits[n + 1]>>
  ELSE NatToStr(n \div 10) \o <<Digits[(n % 10) + 1]>>

str(n) == IF n < 0 THEN <<"-">> \o NatToStr(0 - n) ELSE NatToStr(n)

\* list(range(start, stop, -1))
range_down(start, stop) ==
  [k \in 1..(IF start > stop THEN start - stop ELSE 0) |-> start - (k - 1)]

\* (a1, a2) < (b1, b2): Python's lexicographic order on pairs
TupleLess(a, b) == a[1] < b[1] \/ (a[1] = b[1] /\ a[2] < b[2])

TupleLeq(a, b) == TupleLess(a, b) \/ a = b

\* the concatenation of a sequence of sequences, in order
RECURSIVE Flatten(_)
Flatten(ss) ==
  IF Len(ss) = 0 THEN <<>> ELSE ss[1] \o Flatten(Tail(ss))

(***************************************************************************)
(* The outcome of a call: an exception raised (ValueError, the invalid tag *)
(* error) or a value returned (for a generator: the list it yields).       *)
(***************************************************************************)
Raised == [raised |-> TRUE, value |-> <<>>]

Returned(v) == [raised |-> FALSE, value |-> v]

(***************************************************************************)
(* class PEP425Extras                                                      *)
(***************************************************************************)
\* Mutant: the prefix tested is 'mac'.
is_macosx_platform_short_prefix(platform) == startswith(platform, <<"m", "a", "c">>)

is_macosx_platform(platform) == startswith(platform, s_macosx)

\* Mutant: a missing fourth segment is read as an empty architecture
\* instead of raising.
parse_version_and_arch_noarch(segments) ==
  IF ~IsIntLiteral(segments[2]) THEN Raised
  ELSE IF IsIntLiteral(segments[3])
       THEN Returned(<<int(segments[2]), int(segments[3]),
                       IF Len(segments) < 4 THEN <<>> ELSE segments[4]>>)
       ELSE Returned(<<int(segments[2]), 0,
                       join(<<"_">>, SubSeq(segments, 3, Len(segments)))>>)

\* Mutant: the fallback architecture is segments[2] alone, not the
\* re-joined segments[2:].
parse_version_and_arch_nojoin(segments) ==
  IF ~IsIntLiteral(segments[2]) THEN Raised
  ELSE IF IsIntLiteral(segments[3])
       THEN IF Len(segments) < 4 THEN Raised
            ELSE Returned(<<int(segments[2]), int(segments[3]), segments[4]>>)
       ELSE Returned(<<int(segments[2]), 0, segments[3]>>)

\* The try block of parse_macosx_tag. segments is 1-based here: segments[1]
\* is Python's segments[0]. int(segments[1]) failing is the outer
\* ValueError; int(segments[2]) failing is the inner ValueError (minor 0,
\* architecture re-joined); segments[3] missing is the IndexError, which is
\* re-raised as the invalid tag error.
parse_version_and_arch(segments) ==
  IF ~IsIntLiteral(segments[2]) THEN Raised
  ELSE IF IsIntLiteral(segments[3])
       THEN IF Len(segments) < 4 THEN Raised
            ELSE Returned(<<int(segments[2]), int(segments[3]), segments[4]>>)
       ELSE Returned(<<int(segments[2]), 0,
                       join(<<"_">>, SubSeq(segments, 3, Len(segments)))>>)

parse_macosx_tag(platform_tag) ==
  IF ~is_macosx_platform(platform_tag) THEN Raised
  ELSE LET segments == split(platform_tag, "_", 3)
       IN  IF Len(segments) < 3 THEN Raised
           ELSE IF segments[1] # s_macosx THEN Raised
           ELSE parse_version_and_arch(segments)

\* Mutant: the ppc64 window is cut one release early (>= instead of >).
out_of_window_ppc64_early(version_tuple, cpu_arch) ==
  \/ cpu_arch = s_x86_64 /\ TupleLess(version_tuple, <<10, 4>>)
  \/ cpu_arch = s_i386 /\ TupleLess(version_tuple, <<10, 4>>)
  \/ cpu_arch = s_ppc64 /\ (\/ TupleLeq(<<10, 5>>, version_tuple)
                            \/ TupleLess(version_tuple, <<10, 4>>))
  \/ cpu_arch = s_ppc /\ TupleLess(<<10, 6>>, version_tuple)

\* The early "return []" tests of _mac_binary_formats (lines 52, 57, 63, 68).
out_of_window(version_tuple, cpu_arch) ==
  \/ cpu_arch = s_x86_64 /\ TupleLess(version_tuple, <<10, 4>>)
  \/ cpu_arch = s_i386 /\ TupleLess(version_tuple, <<10, 4>>)
  \/ cpu_arch = s_ppc64 /\ (\/ TupleLess(<<10, 5>>, version_tuple)
                            \/ TupleLess(version_tuple, <<10, 4>>))
  \/ cpu_arch = s_ppc /\ TupleLess(<<10, 6>>, version_tuple)

\* Mutant: outside the window only the architecture's own suffixes are left
\* out; the universal suffixes are still appended.
mac_binary_formats_universal_outside(version_tuple, cpu_arch) ==
  (IF out_of_window(version_tuple, cpu_arch) THEN <<>>
   ELSE <<cpu_arch>>
        \o (IF cpu_arch = s_x86_64 THEN <<s_intel, s_fat64, s_fat32>>
            ELSE IF cpu_arch = s_i386 THEN <<s_intel, s_fat32, s_fat>>
            ELSE IF cpu_arch = s_ppc64 THEN <<s_fat64>>
            ELSE IF cpu_arch = s_ppc THEN <<s_fat32, s_fat>>
            ELSE <<>>))
  \o (IF cpu_arch \in {s_arm64, s_x86_64} THEN <<s_universal2>> ELSE <<>>)
  \o (IF cpu_arch \in {s_x86_64, s_i386, s_ppc64, s_ppc, s_intel}
      THEN <<s_universal>> ELSE <<>>)

\* _mac_binary_formats
mac_binary_formats(version_tuple, cpu_arch) ==
  IF out_of_window(version_tuple, cpu_arch) THEN <<>>
  ELSE <<cpu_arch>>
       \o (IF cpu_arch = s_x86_64 THEN <<s_intel, s_fat64, s_fat32>>
           ELSE IF cpu_arch = s_i386 THEN <<s_intel, s_fat32, s_fat>>
           ELSE IF cpu_arch = s_ppc64 THEN <<s_fat64>>
           ELSE IF cpu_arch = s_ppc THEN <<s_fat32, s_fat>>
           ELSE <<>>)
       \o (IF cpu_arch \in {s_arm64, s_x86_64} THEN <<s_universal2>> ELSE <<>>)
       \o (IF cpu_arch \in {s_x86_64, s_i386, s_ppc64, s_ppc, s_intel}
           THEN <<s_universal>> ELSE <<>>)

\* "macosx_{major}_{minor}_{binary_format}".format(...)
format_osx_tag(major, minor, binary_format) ==
  s_macosx \o <<"_">> \o str(major) \o <<"_">> \o str(minor) \o <<"_">> \o binary_format

\* the inner loop "for binary_format in binary_formats: yield ..." for one
\* compat_version
osx_tags_of_version(compat_version, arch) ==
  LET binary_formats == mac_binary_formats(compat_version, arch)
  IN  [k \in 1..Len(binary_formats) |->
         format_osx_tag(compat_version[1], compat_version[2], binary_formats[k])]

\* Mutant: the walk stops before minor version 0 (range(minor, 0, -1)).
osx_minor_walk_stop_early(version, arch) ==
  IF TupleLeq(<<10, 0>>, version) /\ TupleLess(version, <<11, 0>>)
  THEN LET minors == range_down(version[2], 0)
       IN  Flatten([k \in 1..Len(minors) |-> osx_tags_of_version(<<10, minors[k]>>, arch)])
  ELSE <<>>

\* Mutant: the walk ends at the first minor version whose format list is
\* empty.
osx_minor_walk_stops_at_empty(version, arch) ==
  IF TupleLeq(<<10, 0>>, version) /\ TupleLess(version, <<11, 0>>)
  THEN LET minors == range_down(version[2], -1)
           empty == {k \in 1..Len(minors) :
                       mac_binary_formats(<<10, minors[k]>>, arch) = <<>>}
           last == IF empty = {} THEN Len(minors)
                   ELSE (CHOOSE k \in empty : \A e \in empty : k <= e) - 1
       IN  Flatten([k \in 1..last |-> osx_tags_of_version(<<10, minors[k]>>, arch)])
  ELSE <<>>

\* Mutant: the walk goes up from minor version 0 to the tag's minor version.
osx_minor_walk_ascending(version, arch) ==
  IF TupleLeq(<<10, 0>>, version) /\ TupleLess(version, <<11, 0>>)
  THEN Flatten([k \in 1..(version[2] + 1) |-> osx_tags_of_version(<<10, k - 1>>, arch)])
  ELSE <<>>

\* Mutant: the 10.x walk has no lower bound on the version.
osx_minor_walk_no_lower_bound(version, arch) ==
  IF TupleLess(version, <<11, 0>>)
  THEN LET minors == range_down(version[2], -1)
       IN  Flatten([k \in 1..Len(minors) |-> osx_tags_of_version(<<10, minors[k]>>, arch)])
  ELSE <<>>

\* lines 87-96: Mac OS 10.x, one step per minor version down to 0
osx_minor_walk(version, arch) ==
  IF TupleLeq(<<10, 0>>, version) /\ TupleLess(version, <<11, 0>>)
  THEN LET minors == range_down(version[2], -1)
       IN  Flatten([k \in 1..Len(minors) |-> osx_tags_of_version(<<10, minors[k]>>, arch)])
  ELSE <<>>

\* lines 98-107: Mac OS 11 and later, one step per major version down to 11
osx_major_walk(version, arch) ==
  IF TupleLeq(<<11, 0>>, version)
  THEN LET majors == range_down(version[1], 10)
       IN  Flatten([k \in 1..Len(majors) |-> osx_tags_of_version(<<majors[k], 0>>, arch)])
  ELSE <<>>

\* Mutant: the bridge resolves the formats for every architecture, not only
\* for x86_64.
osx_bridge_always_resolved(version, arch) ==
  IF TupleLeq(<<11, 0>>, version)
  THEN LET minors == range_down(16, 3)
       IN  Flatten([k \in 1..Len(minors) |-> osx_tags_of_version(<<10, minors[k]>>, arch)])
  ELSE <<>>

\* Mutant: the bridge starts at 10.15 (range(15, 3, -1)).
osx_bridge_short(version, arch) ==
  IF TupleLeq(<<11, 0>>, version)
  THEN LET minors == range_down(15, 3)
       IN  IF arch = s_x86_64
           THEN Flatten([k \in 1..Len(minors) |->
                           osx_tags_of_version(<<10, minors[k]>>, arch)])
           ELSE [k \in 1..Len(minors) |-> format_osx_tag(10, minors[k], s_universal2)]
  ELSE <<>>

\* lines 109-135: the bridge from Mac OS 11 and later back to 10.16 .. 10.4
osx_bridge(version, arch) ==
  IF TupleLeq(<<11, 0>>, version)
  THEN LET minors == range_down(16, 3)
       IN  IF arch = s_x86_64
           THEN Flatten([k \in 1..Len(minors) |->
                           osx_tags_of_version(<<10, minors[k]>>, arch)])
           ELSE [k \in 1..Len(minors) |-> format_osx_tag(10, minors[k], s_universal2)]
  ELSE <<>>

\* iter_compatible_osx_platforms, as the list of the tags it yields; the
\* parse error is raised at the first next(), before any tag is yielded
iter_compatible_osx_platforms(supported_platform) ==
  LET parsed == parse_macosx_tag(supported_platform)
  IN  IF parsed.raised THEN Raised
      ELSE LET version == <<parsed.value[1], parsed.value[2]>>
               arch == parsed.value[3]
           IN  Returned(osx_minor_walk(version, arch)
                        \o osx_major_walk(version, arch)
                        \o osx_bridge(version, arch))

\* platform_iterator, as the list of the tags it yields
platform_iterator(platform) ==
  IF is_macosx_platform(platform)
  THEN iter_compatible_osx_platforms(platform)
  ELSE Returned(<<platform>>)

(***************************************************************************)
(* class PEP425                                                            *)
(***************************************************************************)
\* the value None; no string is equal to it
None == <<"None">>

\* '%s' % x for x a string or None
format_s(x) == IF x = None THEN <<"N", "o", "n", "e">> ELSE x

s_CPython == <<"C", "P", "y", "t", "h", "o", "n">>
s_Jython == <<"J", "y", "t", "h", "o", "n">>
s_PyPy == <<"P", "y", "P", "y">>
s_IronPython == <<"I", "r", "o", "n", "P", "y", "t", "h", "o", "n">>

\* lines 151-160: INTERPRETER_TAGS.get(interpreter_subversion), None for a
\* name the table does not have
get_implementation_tag(interpreter_subversion) ==
  IF interpreter_subversion = s_CPython THEN s_cp
  ELSE IF interpreter_subversion = s_Jython THEN s_jy
  ELSE IF interpreter_subversion = s_PyPy THEN s_pp
  ELSE IF interpreter_subversion = s_IronPython THEN s_ip
  ELSE None

\* lines 162-164: ''.join(map(str, interpreter_version[:2]))
get_version_tag(interpreter_version) ==
  LET first_two == SubSeq(interpreter_version, 1,
                          IF Len(interpreter_version) < 2
                          THEN Len(interpreter_version) ELSE 2)
  IN  join(<<>>, [k \in 1..Len(first_two) |-> str(first_two[k])])

\* Mutant: only the dots are replaced.
translate_platform_to_tag_dots_only(platform) ==
  replace(platform, ".", "_")

translate_platform_to_tag(platform) ==
  replace(replace(platform, ".", "_"), "-", "_")

\* Mutant: 'abi3' is appended for every CPython version.
supported_abis_abi3_always(impl, version) ==
  IF impl = s_cp /\ (startswith(version, <<"2">>) \/ startswith(version, <<"3">>))
  THEN << s_cp \o version,
          s_cp \o version \o s_dmu, s_cp \o version \o s_dm,
          s_cp \o version \o s_du, s_cp \o version \o s_d,
          s_cp \o version \o s_mu, s_cp \o version \o s_m,
          s_cp \o version \o s_u, s_abi3 >>
  ELSE <<>>

\* Mutant: a typing slip lists 'cp<ver>dm' twice and 'cp<ver>dmu' not at all.
supported_abis_dm_twice(impl, version) ==
  IF impl = s_cp /\ (startswith(version, <<"2">>) \/ startswith(version, <<"3">>))
  THEN << s_cp \o version,
          s_cp \o version \o s_dm, s_cp \o version \o s_dm,
          s_cp \o version \o s_du, s_cp \o version \o s_d,
          s_cp \o version \o s_mu, s_cp \o version \o s_m,
          s_cp \o version \o s_u >>
       \o (IF startswith(version, <<"3">>) THEN <<s_abi3>> ELSE <<>>)
  ELSE <<>>

\* lines 189-201: the predicted ABIs
supported_abis(impl, version) ==
  IF impl = s_cp /\ (startswith(version, <<"2">>) \/ startswith(version, <<"3">>))
  THEN << s_cp \o version,
          s_cp \o version \o s_dmu, s_cp \o version \o s_dm,
          s_cp \o version \o s_du, s_cp \o version \o s_d,
          s_cp \o version \o s_mu, s_cp \o version \o s_m,
          s_cp \o version \o s_u >>
       \o (IF startswith(version, <<"3">>) THEN <<s_abi3>> ELSE <<>>)
  ELSE <<>>

\* line 203: major_version = int(version[0])
major_version_of(version) == int(SubSeq(version, 1, 1))

\* Mutant: the minor versions stop at 1 (range(minor, 0, -1)).
minor_versions_of_no_zero(version) ==
  LET minors == range_down(int(Tail(version)), 0)
  IN  [k \in 1..Len(minors) |-> str(major_version_of(version)) \o str(minors[k])]

\* lines 204-206: '%d%d' % (major_version, minor) for minor descending to 0
minor_versions_of(version) ==
  LET minors == range_down(int(Tail(version)), -1)
  IN  [k \in 1..Len(minors) |-> str(major_version_of(version)) \o str(minors[k])]

(***************************************************************************)
(* Bounds of the model and the inputs the calls are made with.             *)
(***************************************************************************)
MaxMajor == 13

MaxMinor == 7

MaxCalls == 2

\* architectures of macOS tags: those _mac_binary_formats names, and one it
\* does not (the tests use "universal" as an architecture)
Archs == {s_x86_64, s_i386, s_ppc64, s_ppc, s_arm64, s_intel, s_universal}

\* the (major, minor) versions asked of _mac_binary_formats and written
\* into well-formed tags
MacVersions == (9..MaxMajor) \X (0..MaxMinor)

\* "macosx_<major>_<minor>_<arch>" and "macosx_<major>_<arch>"
WellFormedTags ==
  {s_macosx \o <<"_">> \o str(v[1]) \o <<"_">> \o str(v[2]) \o <<"_">> \o arch :
     v \in MacVersions, arch \in Archs}
  \cup {s_macosx \o <<"_">> \o str(major) \o <<"_">> \o arch :
     major \in 9..MaxMajor, arch \in Archs}

\* "macosx_10", "macosx_10_0" (the tests' invalid tags)
t_macosx_10 == <<"m", "a", "c", "o", "s", "x", "_", "1", "0">>
t_macosx_10_0 == <<"m", "a", "c", "o", "s", "x", "_", "1", "0", "_", "0">>
\* "macosxs_10_1_arm64": the prefix matches, the first segment does not
t_macosxs == <<"m", "a", "c", "o", "s", "x", "s", "_", "1", "0", "_", "1", "_", "a", "r", "m", "6", "4">>
\* "macosx_x_1_arm64": the major version is no integer
t_major_x == <<"m", "a", "c", "o", "s", "x", "_", "x", "_", "1", "_", "a", "r", "m", "6", "4">>
\* "macosx_10_0_": an empty architecture segment
t_empty_arch == <<"m", "a", "c", "o", "s", "x", "_", "1", "0", "_", "0", "_">>
\* "macosx_10__arm64": an empty minor segment
t_empty_minor == <<"m", "a", "c", "o", "s", "x", "_", "1", "0", "_", "_", "a", "r", "m", "6", "4">>
\* "macosx_-1_5_arm64": a negative major version
t_neg_major == <<"m", "a", "c", "o", "s", "x", "_", "-", "1", "_", "5", "_", "a", "r", "m", "6", "4">>
\* "macosx_11_-1_arm64": a negative minor version
t_neg_minor == <<"m", "a", "c", "o", "s", "x", "_", "1", "1", "_", "-", "1", "_", "a", "r", "m", "6", "4">>
\* "mac_10_1_arm64": not a macosx tag
t_mac == <<"m", "a", "c", "_", "1", "0", "_", "1", "_", "a", "r", "m", "6", "4">>
\* "macosx-10.4-x86_64": a platform that was not normalized
t_raw == <<"m", "a", "c", "o", "s", "x", "-", "1", "0", ".", "4", "-", "x", "8", "6", "_", "6", "4">>
\* "macosx_12_1_x86_64_v2", "macosx_12_arm_64_v2", "macosx_10_x_6_intel":
\* architectures with underscores, with and without a minor version
t_long_arch == <<"m", "a", "c", "o", "s", "x", "_", "1", "2", "_", "1", "_", "x", "8", "6", "_", "6", "4", "_", "v", "2">>
t_long_arch0 == <<"m", "a", "c", "o", "s", "x", "_", "1", "2", "_", "a", "r", "m", "_", "6", "4", "_", "v", "2">>
t_minor_x == <<"m", "a", "c", "o", "s", "x", "_", "1", "0", "_", "x", "_", "6", "_", "i", "n", "t", "e", "l">>

OtherTags ==
  { t_macosx_10, t_macosx_10_0, s_macosx, t_macosxs, t_major_x, t_empty_arch,
    t_empty_minor, t_neg_major, t_neg_minor, t_mac, t_raw, t_long_arch, t_long_arch0,
    t_minor_x, s_blah, s_linux_x86_64, s_any }

\* the platform tags given to parse_macosx_tag and to platform_iterator
TagInputs == WellFormedTags \cup OtherTags

\* raw platforms given to _iter_supported_tags: "macosx-10.4-x86_64",
\* "macosx-11.0-arm64", "macosx-10.0", "macosx_9_5_x86_64",
\* "macosx_10_7_ppc64", and "linux-x86_64", "any", "macosx_10"
r_macosx_10_4 == <<"m", "a", "c", "o", "s", "x", "-", "1", "0", ".", "4", "-", "x", "8", "6", "_", "6", "4">>
r_macosx_11_0 == <<"m", "a", "c", "o", "s", "x", "-", "1", "1", ".", "0", "-", "a", "r", "m", "6", "4">>
r_macosx_10_0 == <<"m", "a", "c", "o", "s", "x", "-", "1", "0", ".", "0">>
r_macosx_9_5 == <<"m", "a", "c", "o", "s", "x", "_", "9", "_", "5", "_", "x", "8", "6", "_", "6", "4">>
r_macosx_10_7 == <<"m", "a", "c", "o", "s", "x", "_", "1", "0", "_", "7", "_", "p", "p", "c", "6", "4">>

RawPlatforms ==
  { s_linux_raw, s_any, r_macosx_10_4, r_macosx_11_0, r_macosx_10_0,
    r_macosx_9_5, r_macosx_10_7, t_macosx_10 }

\* implementation tags and version tags: '26', '312', '41'
Impls == {s_cp, s_py, s_pp, s_jy, s_ip}

v26 == <<"2", "6">>
v312 == <<"3", "1", "2">>
v41 == <<"4", "1">>

VersionTags == {v26, v312, v41}

\* the arguments of translate_platform_to_tag: the platforms above, the
\* empty string and a string with adjacent separators
p_empty == <<>>

p_mixed == <<"w", "i", "n", "-", ".", "_", "-", "-", "a", ".", "6", "4", ".">>

PlatformStrings == RawPlatforms \cup {p_empty, p_mixed}

\* the identities passed to iter_supported_tags: <<interpreter, version>>
s_Stackless == <<"S", "t", "a", "c", "k", "l", "e", "s", "s">>

InterpreterNames == {s_CPython, s_Jython, s_PyPy, s_IronPython, s_Stackless}

IdentityVersions == {<<2, 6, 5>>, <<3, 12, 1>>, <<3, 9>>}

Identities == InterpreterNames \X IdentityVersions

IdentityPlatforms == {s_linux_raw, r_macosx_10_4}

\* the threads that call MonitoringClient.get_default(), once each
NumThreads == 2

Threads == 1..NumThreads

(***************************************************************************)
(* State: one caller makes up to MaxCalls calls of one entry point with    *)
(* the same arguments, and consumes a generator one next() at a time.      *)
(* For MonitoringClient.get_default the callers are NumThreads threads     *)
(* that share the class attribute and run the method line by line.         *)
(***************************************************************************)
VARIABLES
  call,            \* the entry point called
  identity,        \* iter_supported_tags: identity, as <<interpreter, version>>
  impl,            \* _iter_supported_tags: impl
  version,         \* _iter_supported_tags: version
  platform,        \* the platform (tag) argument
  version_tuple,   \* _mac_binary_formats: version_tuple
  cpu_arch,        \* _mac_binary_formats: cpu_arch
  pc,              \* "ready", "yielded", "specific", "generic", "returned", "raised"
  ret,             \* the value returned by a call that is no generator
  out,             \* the values the generator has yielded so far
  abis,            \* _iter_supported_tags: abis
  minor_versions,  \* _iter_supported_tags: minor_versions
  platforms,       \* _iter_supported_tags: platforms; platform_iterator: the tags to yield
  p_idx,           \* position of the loop over platforms
  abi_idx,         \* position of the loop over abis
  i_idx,           \* position of the loop over ('py', impl)
  minor_idx,       \* position of the loop over minor_versions, 0 at line 217
  parser_called,   \* parse_macosx_tag was entered during this call
  calls,           \* number of calls started
  prev,            \* <<pc, ret, out>> at the end of the previous call
  default_instance,  \* MonitoringClient._INSTANCE: 0 for None, else the number of a client
  constructed,     \* number of MonitoringClient objects constructed so far
  thread_pc,       \* per thread: the line of get_default it is about to run
  thread_new,      \* per thread: the client line 158 has constructed and not yet stored
  thread_ret       \* per thread: the client get_default returned, 0 before it returns

inputs == <<call, identity, impl, version, platform, version_tuple, cpu_arch>>

locals == <<abis, minor_versions, platforms>>

loops == <<p_idx, abi_idx, i_idx, minor_idx>>

threads == <<default_instance, constructed, thread_pc, thread_new, thread_ret>>

vars == <<inputs, pc, ret, out, locals, loops, parser_called, calls, prev, threads>>

Init ==
  /\ \/ /\ call = "parse_macosx_tag"
        /\ platform \in TagInputs
        /\ impl = <<>> /\ version = <<>> /\ version_tuple = <<>> /\ cpu_arch = <<>>
        /\ identity = <<>>
     \/ /\ call = "mac_binary_formats"
        /\ version_tuple \in MacVersions
        /\ cpu_arch \in Archs
        /\ impl = <<>> /\ version = <<>> /\ platform = <<>>
        /\ identity = <<>>
     \/ /\ call = "platform_iterator"
        /\ platform \in TagInputs
        /\ impl = <<>> /\ version = <<>> /\ version_tuple = <<>> /\ cpu_arch = <<>>
        /\ identity = <<>>
     \/ /\ call = "translate_platform_to_tag"
        /\ platform \in PlatformStrings
        /\ impl = <<>> /\ version = <<>> /\ version_tuple = <<>> /\ cpu_arch = <<>>
        /\ identity = <<>>
     \/ /\ call = "iter_supported_tags"
        /\ impl \in Impls
        /\ version \in VersionTags
        /\ platform \in RawPlatforms
        /\ version_tuple = <<>> /\ cpu_arch = <<>>
        /\ identity = <<>>
     \/ /\ call = "PEP425.iter_supported_tags"
        /\ identity \in Identities
        /\ platform \in IdentityPlatforms
        /\ impl = <<>> /\ version = <<>> /\ version_tuple = <<>> /\ cpu_arch = <<>>
     \/ /\ call = "get_default"
        /\ platform = <<>> /\ identity = <<>>
        /\ impl = <<>> /\ version = <<>> /\ version_tuple = <<>> /\ cpu_arch = <<>>
  /\ pc = "ready"
  /\ ret = <<>>
  /\ out = <<>>
  /\ abis = <<>> /\ minor_versions = <<>> /\ platforms = <<>>
  /\ p_idx = 0 /\ abi_idx = 0 /\ i_idx = 0 /\ minor_idx = 0
  /\ parser_called = FALSE
  /\ calls = 1
  /\ prev = <<"none", <<>>, <<>>>>
  /\ default_instance = 0
  /\ constructed = 0
  /\ thread_pc = [t \in Threads |-> "line157"]
  /\ thread_new = [t \in Threads |-> 0]
  /\ thread_ret = [t \in Threads |-> 0]

\* a call of parse_macosx_tag(platform)
ParseMacosxTag ==
  /\ call = "parse_macosx_tag"
  /\ pc = "ready"
  /\ LET r == parse_macosx_tag(platform)
     IN  /\ pc' = IF r.raised THEN "raised" ELSE "returned"
         /\ ret' = r.value
  /\ parser_called' = TRUE
  /\ UNCHANGED <<threads, inputs, out, locals, loops, calls, prev>>

\* a call of translate_platform_to_tag(platform)
TranslatePlatformToTag ==
  /\ call = "translate_platform_to_tag"
  /\ pc = "ready"
  /\ pc' = "returned"
  /\ ret' = translate_platform_to_tag(platform)
  /\ UNCHANGED <<threads, inputs, out, locals, loops, parser_called, calls, prev>>

\* a call of _mac_binary_formats(version_tuple, cpu_arch)
MacBinaryFormats ==
  /\ call = "mac_binary_formats"
  /\ pc = "ready"
  /\ pc' = "returned"
  /\ ret' = mac_binary_formats(version_tuple, cpu_arch)
  /\ UNCHANGED <<threads, inputs, out, locals, loops, parser_called, calls, prev>>

\* the first next() of platform_iterator(platform): the prefix test, for a
\* macosx tag the parse (which may raise), then the first yield
PlatformIteratorFirst ==
  /\ call = "platform_iterator"
  /\ pc = "ready"
  /\ parser_called' = is_macosx_platform(platform)
  /\ LET r == platform_iterator(platform)
     IN  IF r.raised
         THEN /\ pc' = "raised"
              /\ UNCHANGED <<out, platforms, p_idx>>
         ELSE /\ platforms' = r.value
              /\ IF Len(r.value) = 0
                 THEN /\ pc' = "returned"
                      /\ UNCHANGED <<out, p_idx>>
                 ELSE /\ pc' = "yielded"
                      /\ p_idx' = 1
                      /\ out' = <<r.value[1]>>
  /\ UNCHANGED <<threads, inputs, ret, abis, minor_versions, abi_idx, i_idx, minor_idx, calls, prev>>

\* a later next() of platform_iterator: the next tag, or exhaustion
PlatformIteratorNext ==
  /\ call = "platform_iterator"
  /\ pc = "yielded"
  /\ IF p_idx < Len(platforms)
     THEN /\ p_idx' = p_idx + 1
          /\ out' = Append(out, platforms[p_idx + 1])
          /\ pc' = pc
     ELSE /\ pc' = "returned"
          /\ UNCHANGED <<out, p_idx>>
  /\ UNCHANGED <<threads, inputs, ret, locals, abi_idx, i_idx, minor_idx, parser_called, calls, prev>>

\* Mutant: abis is one list shared by all calls instead of a list made
\* afresh by each call.
abis_shared == abis \o supported_abis(impl, version)

\* lines 189-201: abis = [] and what is appended to it
abis_of_call == supported_abis(impl, version)

\* Mutant: a tag that fails to parse is taken as a platform with no
\* expansion instead of ending the call.
expanded_platforms_swallowed ==
  LET r == platform_iterator(translate_platform_to_tag(platform))
  IN  IF r.raised THEN Returned(<<>>) ELSE r

\* line 207: list(PEP425Extras.platform_iterator(translate_platform_to_tag(platform)))
expanded_platforms ==
  platform_iterator(translate_platform_to_tag(platform))

\* Mutant: 'any' is tried before the expanded platforms.
generic_platforms_any_first(plats) == <<s_any>> \o plats

\* line 215: platforms + ['any']
generic_platforms(plats) == plats \o <<s_any>>

\* line 216: ('py', impl)
interpreters == <<s_py, impl>>

\* line 212: ('%s%s' % (impl, version), abi, p)
pyver_specific(impl_tag, vers_tag) == format_s(impl_tag) \o vers_tag

specific_tuple(abi, p) == <<pyver_specific(impl, version), abi, p>>

\* line 217: ('%s%d' % (i, major_version), 'none', p)
pyver_major(i, vers_tag) == format_s(i) \o str(major_version_of(vers_tag))

generic_major_tuple(i, p) == <<pyver_major(i, version), s_none, p>>

\* line 219: ('%s%s' % (i, minor_version), 'none', p)
generic_minor_tuple(i, minor_version, p) == <<format_s(i) \o minor_version, s_none, p>>

\* the first next() of _iter_supported_tags(impl, version, platform):
\* lines 189-207 (where the expansion of a malformed macosx tag raises),
\* then the run up to the first yield, at line 212 or, with no ABI or no
\* expanded platform, at line 217
TagsFirst ==
  /\ call = "iter_supported_tags"
  /\ pc = "ready"
  /\ abis' = abis_of_call
  /\ minor_versions' = minor_versions_of(version)
  /\ parser_called' = is_macosx_platform(translate_platform_to_tag(platform))
  /\ IF expanded_platforms.raised
     THEN /\ pc' = "raised"
          /\ UNCHANGED <<out, platforms, loops>>
     ELSE /\ platforms' = expanded_platforms.value
          /\ IF Len(platforms') > 0 /\ Len(abis') > 0
             THEN /\ pc' = "specific"
                  /\ p_idx' = 1 /\ abi_idx' = 1
                  /\ out' = <<specific_tuple(abis'[1], platforms'[1])>>
                  /\ UNCHANGED <<i_idx, minor_idx>>
             ELSE /\ pc' = "generic"
                  /\ p_idx' = 1 /\ i_idx' = 1 /\ minor_idx' = 0
                  /\ out' = <<generic_major_tuple(interpreters[1],
                                                  generic_platforms(platforms')[1])>>
                  /\ UNCHANGED abi_idx
  /\ UNCHANGED <<threads, inputs, ret, calls, prev>>

\* the first next() of iter_supported_tags(identity, platform): lines 231-233
\* give the inner generator its impl and version, and the loop of lines
\* 234-235 runs it up to its first yield (lines 189-207, then line 212 or 217)
\* and yields that tuple
IterSupportedTagsFirst ==
  /\ call = "PEP425.iter_supported_tags"
  /\ pc = "ready"
  /\ LET impl_tag == get_implementation_tag(identity[1])
         vers_tag == get_version_tag(identity[2])
     IN  /\ impl' = impl_tag
         /\ version' = vers_tag
         /\ abis' = supported_abis(impl_tag, vers_tag)
         /\ minor_versions' = minor_versions_of(vers_tag)
         /\ parser_called' = is_macosx_platform(translate_platform_to_tag(platform))
         /\ IF expanded_platforms.raised
            THEN /\ pc' = "raised"
                 /\ UNCHANGED <<out, platforms, loops>>
            ELSE /\ platforms' = expanded_platforms.value
                 /\ IF Len(platforms') > 0 /\ Len(abis') > 0
                    THEN /\ pc' = "specific"
                         /\ p_idx' = 1 /\ abi_idx' = 1
                         /\ out' = <<<<pyver_specific(impl_tag, vers_tag),
                                       abis'[1], platforms'[1]>>>>
                         /\ UNCHANGED <<i_idx, minor_idx>>
                    ELSE /\ pc' = "generic"
                         /\ p_idx' = 1 /\ i_idx' = 1 /\ minor_idx' = 0
                         /\ out' = <<<<pyver_major(s_py, vers_tag), s_none,
                                       generic_platforms(platforms')[1]>>>>
                         /\ UNCHANGED abi_idx
  /\ UNCHANGED <<threads, call, identity, platform, version_tuple, cpu_arch, ret, calls, prev>>

\* a next() resumed after the yield of line 212: the next ABI, the next
\* platform, or on to the second loop and its first yield at line 217
TagsNextSpecific ==
  /\ call \in {"iter_supported_tags", "PEP425.iter_supported_tags"}
  /\ pc = "specific"
  /\ IF abi_idx < Len(abis)
     THEN /\ abi_idx' = abi_idx + 1
          /\ out' = Append(out, specific_tuple(abis[abi_idx + 1], platforms[p_idx]))
          /\ UNCHANGED <<pc, p_idx, i_idx, minor_idx>>
     ELSE IF p_idx < Len(platforms)
     THEN /\ p_idx' = p_idx + 1
          /\ abi_idx' = 1
          /\ out' = Append(out, specific_tuple(abis[1], platforms[p_idx + 1]))
          /\ UNCHANGED <<pc, i_idx, minor_idx>>
     ELSE /\ pc' = "generic"
          /\ p_idx' = 1 /\ i_idx' = 1 /\ minor_idx' = 0
          /\ out' = Append(out, generic_major_tuple(interpreters[1],
                                                    generic_platforms(platforms)[1]))
          /\ UNCHANGED abi_idx
  /\ UNCHANGED <<threads, inputs, ret, locals, parser_called, calls, prev>>

\* a next() resumed after the yield of line 217 or 219: the next minor
\* version, the next of ('py', impl), the next platform, or exhaustion
TagsNextGeneric ==
  /\ call \in {"iter_supported_tags", "PEP425.iter_supported_tags"}
  /\ pc = "generic"
  /\ IF minor_idx < Len(minor_versions)
     THEN /\ minor_idx' = minor_idx + 1
          /\ out' = Append(out, generic_minor_tuple(interpreters[i_idx],
                                                    minor_versions[minor_idx + 1],
                                                    generic_platforms(platforms)[p_idx]))
          /\ UNCHANGED <<pc, p_idx, i_idx>>
     ELSE IF i_idx < Len(interpreters)
     THEN /\ i_idx' = i_idx + 1
          /\ minor_idx' = 0
          /\ out' = Append(out, generic_major_tuple(interpreters[i_idx + 1],
                                                    generic_platforms(platforms)[p_idx]))
          /\ UNCHANGED <<pc, p_idx>>
     ELSE IF p_idx < Len(generic_platforms(platforms))
     THEN /\ p_idx' = p_idx + 1
          /\ i_idx' = 1
          /\ minor_idx' = 0
          /\ out' = Append(out, generic_major_tuple(interpreters[1],
                                                    generic_platforms(platforms)[p_idx + 1]))
          /\ UNCHANGED pc
     ELSE /\ pc' = "returned"
          /\ UNCHANGED <<out, p_idx, i_idx, minor_idx>>
  /\ UNCHANGED <<threads, inputs, ret, abi_idx, locals, parser_called, calls, prev>>

\* line 157 in thread t: "if not MonitoringClient._INSTANCE", one read of the
\* class attribute; no lock is held
GetDefaultCheck(t) ==
  /\ call = "get_default"
  /\ thread_pc[t] = "line157"
  /\ thread_pc' = [thread_pc EXCEPT ![t] = IF default_instance = 0 THEN "line158"
                                           ELSE "line159"]
  /\ UNCHANGED <<inputs, pc, ret, out, locals, loops, parser_called, calls, prev,
                 default_instance, constructed, thread_new, thread_ret>>

\* line 158 in thread t, right-hand side: MonitoringClient(context, environment)
\* runs __init__ and gives a new client
GetDefaultConstruct(t) ==
  /\ call = "get_default"
  /\ thread_pc[t] = "line158"
  /\ constructed' = constructed + 1
  /\ thread_new' = [thread_new EXCEPT ![t] = constructed + 1]
  /\ thread_pc' = [thread_pc EXCEPT ![t] = "store158"]
  /\ UNCHANGED <<inputs, pc, ret, out, locals, loops, parser_called, calls, prev,
                 default_instance, thread_ret>>

\* line 158 in thread t, the store into MonitoringClient._INSTANCE
GetDefaultAssign(t) ==
  /\ call = "get_default"
  /\ thread_pc[t] = "store158"
  /\ default_instance' = thread_new[t]
  /\ thread_pc' = [thread_pc EXCEPT ![t] = "line159"]
  /\ UNCHANGED <<inputs, pc, ret, out, locals, loops, parser_called, calls, prev,
                 constructed, thread_new, thread_ret>>

\* line 159 in thread t: "return MonitoringClient._INSTANCE", a second read
\* of the class attribute
GetDefaultReturn(t) ==
  /\ call = "get_default"
  /\ thread_pc[t] = "line159"
  /\ thread_ret' = [thread_ret EXCEPT ![t] = default_instance]
  /\ thread_pc' = [thread_pc EXCEPT ![t] = "returned"]
  /\ UNCHANGED <<inputs, pc, ret, out, locals, loops, parser_called, calls, prev,
                 default_instance, constructed, thread_new>>

\* the caller, after a call has ended, makes the same call again: a new
\* frame and a new generator; nothing of the ended call is passed on
CallAgain ==
  /\ pc \in {"returned", "raised"}
  /\ calls < MaxCalls
  /\ calls' = calls + 1
  /\ prev' = <<pc, ret, out>>
  /\ pc' = "ready"
  /\ ret' = <<>>
  /\ out' = <<>>
  /\ parser_called' = FALSE
  /\ UNCHANGED <<threads, inputs, locals, loops>>

Next ==
  \/ ParseMacosxTag
  \/ TranslatePlatformToTag
  \/ MacBinaryFormats
  \/ PlatformIteratorFirst
  \/ PlatformIteratorNext
  \/ TagsFirst
  \/ IterSupportedTagsFirst
  \/ TagsNextSpecific
  \/ TagsNextGeneric
  \/ \E t \in Threads : GetDefaultCheck(t)
  \/ \E t \in Threads : GetDefaultConstruct(t)
  \/ \E t \in Threads : GetDefaultAssign(t)
  \/ \E t \in Threads : GetDefaultReturn(t)
  \/ CallAgain

Spec == Init /\ [][Next]_vars

(***************************************************************************)
(* Properties.                                                             *)
(***************************************************************************)
ToSet(seq) == {seq[k] : k \in 1..Len(seq)}

TagsCall == call = "iter_supported_tags"

\* the expansion of the normalized platform, the list P of the claims
NormalizedExpansion == platform_iterator(translate_platform_to_tag(platform))

\* the digit strings d, dn, ..., d0 of a version tag <d><n>
MajorDigit == <<version[1]>>

MinorNumber == int(Tail(version))

\* test_iter_supported_tags, iter_solutions(): CPython 2.6 on linux-x86_64
TestSolutions ==
  LET suffixes == {<<"2">>} \cup {<<"2">> \o str(k) : k \in 0..6}
      cp26abis == { s_cp \o v26, s_cp \o v26 \o s_dmu, s_cp \o v26 \o s_dm,
                    s_cp \o v26 \o s_du, s_cp \o v26 \o s_d, s_cp \o v26 \o s_mu,
                    s_cp \o v26 \o s_m, s_cp \o v26 \o s_u }
  IN  {<<interp \o suffix, s_none, plat>> :
         interp \in {s_cp, s_py}, suffix \in suffixes, plat \in {s_linux_x86_64, s_any}}
      \cup {<<s_cp \o v26, abi, s_linux_x86_64>> : abi \in cp26abis}

C1_Expected ==
  LET P == ToSet(NormalizedExpansion.value)
      S == {MajorDigit} \cup {MajorDigit \o str(k) : k \in 0..MinorNumber}
  IN  {<<impl \o version, abi, plat>> :
         abi \in ToSet(supported_abis(impl, version)), plat \in P}
      \cup {<<i \o s, s_none, plat>> :
         i \in {s_py, impl}, s \in S, plat \in P \cup {s_any}}

\* C1: the set of tuples a completed _iter_supported_tags call has emitted is
\* exactly {(impl+version, abi, p) : p in P, abi in ABI list} union
\* {(i+s, 'none', p) : i in {py, impl}, s in {d, d0, ..., dn}, p in P + any};
\* for cp / 26 / linux-x86_64 it is the solution set of the test.
C1_TupleSet ==
  (TagsCall /\ pc = "returned") =>
     /\ ToSet(out) = C1_Expected
     /\ (impl = s_cp /\ version = v26 /\ platform = s_linux_raw) =>
           ToSet(out) = TestSolutions

C1_Witness ==
  /\ TagsCall /\ pc = "returned"
  /\ impl = s_cp /\ version = v26 /\ platform = s_linux_raw
  /\ Len(out) = 40

\* the first position of x in seq, Len(seq) + 1 when it is not in it
IndexIn(seq, x) ==
  IF \E k \in 1..Len(seq) : seq[k] = x
  THEN CHOOSE k \in 1..Len(seq) : seq[k] = x /\ \A h \in 1..(k - 1) : seq[h] # x
  ELSE Len(seq) + 1

\* The three ordering rules below compare the tuple emitted last with every
\* tuple emitted before it; every prefix of the emitted sequence is the out
\* of a reachable state, so as invariants they order every pair of tuples.

\* specific-ABI tuples precede 'none' tuples
C2_SpecificFirst ==
  \A j \in 1..Len(out) :
     out[j][2] = s_none => out[Len(out)][2] = s_none

\* within the specific group and within the 'none' group the platforms are
\* in the order of the expansion
C2_PlatformOrder ==
  LET P == NormalizedExpansion.value
      last == out[Len(out)]
      last_index == IndexIn(P, last[3])
  IN  \A j \in 1..Len(out) :
         ((out[j][2] = s_none) = (last[2] = s_none)) =>
            IndexIn(P, out[j][3]) <= last_index

\* in the 'none' group 'any' comes last
C2_AnyLast ==
  \A j \in 1..Len(out) :
     (out[j][2] = s_none /\ out[j][3] = s_any) => out[Len(out)][3] = s_any

\* the run of one interpreter prefix on one platform: the major-only tag,
\* then the minor tags from the exact minor down to 0
C2_Run(i, plat) ==
  <<<<i \o MajorDigit, s_none, plat>>>>
  \o [k \in 1..(MinorNumber + 1) |->
        <<i \o MajorDigit \o str(MinorNumber - (k - 1)), s_none, plat>>]

\* the 'none' tuples emitted for platform plat whose tag has prefix i
C2_NoneTuplesOf(i, plat) ==
  LET Keep(tuple) == /\ tuple[2] = s_none
                     /\ tuple[3] = plat
                     /\ tuple[1] \in {r[1] : r \in ToSet(C2_Run(i, plat))}
  IN  SelectSeq(out, Keep)

\* C2 as stated: the three ordering rules, and for each (platform,
\* interpreter prefix) the 'none' tuples are the major-only tag followed by
\* the minor tags in strictly descending order down to 0.
C2_AsStated ==
  TagsCall =>
     /\ C2_SpecificFirst
     /\ C2_PlatformOrder
     /\ C2_AnyLast
     /\ pc = "returned" =>
           \A plat \in ToSet(NormalizedExpansion.value) \cup {s_any} :
              \A i \in {s_py, impl} :
                 C2_NoneTuplesOf(i, plat) = C2_Run(i, plat)

\* the 'none' tuples emitted, in order
C2_NoneGroup ==
  LET IsNone(tuple) == tuple[2] = s_none
  IN  SelectSeq(out, IsNone)

\* the runs of all platform occurrences of (expansion + any), each with the
\* run of 'py' and then the run of impl
C2_AllRuns ==
  LET plats == NormalizedExpansion.value \o <<s_any>>
  IN  Flatten([k \in 1..Len(plats) |->
                 C2_Run(s_py, plats[k]) \o C2_Run(impl, plats[k])])

\* C2 (amended): the three ordering rules hold, and the 'none' group is, for
\* each platform occurrence of (expansion + any) in order, the run of 'py'
\* followed by the run of impl, each run being the major-only tag followed by
\* the minor tags in strictly descending order down to 0. (With impl 'py' or
\* the platform 'any' the same run is emitted twice for one (platform,
\* prefix).)
C2_Ordering ==
  TagsCall =>
     /\ C2_SpecificFirst
     /\ C2_PlatformOrder
     /\ C2_AnyLast
     /\ pc = "returned" => C2_NoneGroup = C2_AllRuns

C2_Witness ==
  /\ TagsCall /\ pc = "returned"
  /\ impl = s_cp /\ version = v312 /\ platform = r_macosx_11_0
  /\ \E j \in 1..Len(out) : out[j][2] = s_abi3
  /\ out[Len(out)] = <<s_cp \o <<"3", "0">>, s_none, s_any>>

\* C3: for a platform tag that does not start with 'macosx',
\* platform_iterator yields exactly one element, the tag unchanged, never
\* enters the macOS parser and never raises.
C3_NonMacPassThrough ==
  (call = "platform_iterator" /\ ~startswith(platform, s_macosx)) =>
     /\ pc # "raised"
     /\ ~parser_called
     /\ pc = "yielded" => out = <<platform>>
     /\ pc = "returned" => out = <<platform>>

C3_Witness ==
  /\ call = "platform_iterator" /\ platform = t_mac
  /\ pc = "returned" /\ out = <<t_mac>>

\* the failure cases (a) to (e) of C4, on the '_'-separated segments of the
\* tag (at most three cuts)
C4_Fails(tag) ==
  LET segs == split(tag, "_", 3)
  IN  \/ ~startswith(tag, s_macosx)
      \/ Len(segs) < 3
      \/ segs[1] # s_macosx
      \/ ~IsIntLiteral(segs[2])
      \/ IsIntLiteral(segs[3]) /\ Len(segs) < 4

\* C4: parse_macosx_tag raises the invalid tag error exactly for the tags
\* that (a) do not start with 'macosx', (b) have fewer than 3 segments, (c)
\* have a first segment other than 'macosx', (d) have a non-integer major
\* segment or (e) have an integer minor segment and no architecture segment;
\* every other tag parses. 'macosx_10' and 'macosx_10_0' fail, also through
\* platform_iterator, which then yields nothing.
C4_InvalidTags ==
  /\ (call = "parse_macosx_tag" /\ pc # "ready") =>
        /\ (pc = "raised") = C4_Fails(platform)
        /\ platform \in {t_macosx_10, t_macosx_10_0} => pc = "raised"
  /\ (call = "platform_iterator" /\ pc # "ready" /\ startswith(platform, s_macosx)) =>
        /\ (pc = "raised") = C4_Fails(platform)
        /\ pc = "raised" => out = <<>>
        /\ platform \in {t_macosx_10, t_macosx_10_0} => pc = "raised"

C4_Witness ==
  /\ call = "platform_iterator" /\ platform = t_macosx_10_0
  /\ pc = "raised" /\ out = <<>>

\* "macosx_<M>_<m>_<arch>" and "macosx_<M>_<arch>", written out
C5_TagWithMinor(M, m, arch) ==
  s_macosx \o <<"_">> \o str(M) \o <<"_">> \o str(m) \o <<"_">> \o arch

C5_TagWithoutMinor(M, arch) ==
  s_macosx \o <<"_">> \o str(M) \o <<"_">> \o arch

\* architectures whose first '_'-separated piece is no integer, some with
\* underscores: 'x86_64_v2', 'arm_64_v2', 'x_6_intel'
C5_Archs ==
  Archs \cup { s_x86_64 \o <<"_", "v", "2">>,
               <<"a", "r", "m", "_", "6", "4", "_", "v", "2">>,
               <<"x", "_", "6", "_", "i", "n", "t", "e", "l">> }

\* C5: parse_macosx_tag returns (M, m, arch) on 'macosx_<M>_<m>_<arch>' and
\* (M, 0, arch) on 'macosx_<M>_<arch>' when the first piece of arch is no
\* integer, arch kept whole with its underscores.
C5_ParsedValue ==
  (call = "parse_macosx_tag" /\ pc # "ready") =>
     \A M \in 9..MaxMajor : \A arch \in C5_Archs :
        /\ \A m \in 0..MaxMinor :
              platform = C5_TagWithMinor(M, m, arch) =>
                 pc = "returned" /\ ret = <<M, m, arch>>
        /\ platform = C5_TagWithoutMinor(M, arch) =>
              pc = "returned" /\ ret = <<M, 0, arch>>

C5_Witness ==
  /\ call = "parse_macosx_tag" /\ pc = "returned"
  /\ platform = t_long_arch0
  /\ ret = <<12, 0, <<"a", "r", "m", "_", "6", "4", "_", "v", "2">>>>

\* the tags 'macosx_<major>_<minor>_<f>' for f in resolver((major, minor),
\* arch), in resolver order
TagsAt(major, minor, arch) ==
  LET formats == mac_binary_formats(<<major, minor>>, arch)
  IN  [k \in 1..Len(formats) |->
         s_macosx \o <<"_">> \o str(major) \o <<"_">> \o str(minor) \o <<"_">> \o formats[k]]

\* the concatenation of TagsAt(10, k, arch) for k = from, from - 1, ..., to
RECURSIVE MinorsDown(_, _, _)
MinorsDown(from, to, arch) ==
  IF from < to THEN <<>>
  ELSE TagsAt(10, from, arch) \o MinorsDown(from - 1, to, arch)

\* the concatenation of TagsAt(K, 0, arch) for K = from, from - 1, ..., 11
RECURSIVE MajorsDown(_, _)
MajorsDown(from, arch) ==
  IF from < 11 THEN <<>>
  ELSE TagsAt(from, 0, arch) \o MajorsDown(from - 1, arch)

\* the 18 tags of macosx_10_6_x86_64 and the 19 tags of macosx_13_2_arm64,
\* as the tests list them
Test_10_6_x86_64 ==
  LET formats == <<s_x86_64, s_intel, s_fat64, s_fat32, s_universal2, s_universal>>
      minors == <<6, 5, 4>>
  IN  Flatten([m \in 1..3 |-> [f \in 1..6 |->
         s_macosx \o <<"_", "1", "0", "_">> \o str(minors[m]) \o <<"_">> \o formats[f]]])

Test_13_2_arm64 ==
  {s_macosx \o <<"_">> \o str(major) \o <<"_", "0", "_">> \o f :
      major \in {13, 12, 11}, f \in {s_arm64, s_universal2}}
  \cup {s_macosx \o <<"_", "1", "0", "_">> \o str(minor) \o <<"_">> \o s_universal2 :
      minor \in 4..16}

Tag_10_6_x86_64 == s_macosx \o <<"_", "1", "0", "_", "6", "_">> \o s_x86_64

Tag_10_0_universal == s_macosx \o <<"_", "1", "0", "_", "0", "_">> \o s_universal

Tag_13_2_arm64 == s_macosx \o <<"_", "1", "3", "_", "2", "_">> \o s_arm64

ExpansionDone == call = "platform_iterator" /\ pc = "returned"

\* C6: for a parsed tag (10, m, arch) the expansion is the concatenation, for
\* k = m down to 0, of 'macosx_10_<k>_<f>' for f in resolver((10, k), arch);
\* macosx_10_6_x86_64 gives the 18 tags of the test in order and
\* macosx_10_0_universal gives itself alone.
C6_MinorWalk ==
  ExpansionDone =>
     LET parsed == parse_macosx_tag(platform)
     IN  /\ (~parsed.raised /\ parsed.value[1] = 10) =>
               out = MinorsDown(parsed.value[2], 0, parsed.value[3])
         /\ platform = Tag_10_6_x86_64 => out = Test_10_6_x86_64
         /\ platform = Tag_10_0_universal => out = <<Tag_10_0_universal>>

C6_Witness ==
  /\ ExpansionDone
  /\ platform = Tag_10_6_x86_64
  /\ Len(out) = 18

\* C7: for a parsed tag (M, m, arch) with (M, m) >= (11, 0) the expansion is
\* 'macosx_<K>_0_<f>' for K = M down to 11 and f in resolver((K, 0), arch),
\* then the bridge: for x86_64 the resolver's tags of 10.16 down to 10.4, for
\* any other arch 'macosx_10_<k>_universal2' for k = 16 down to 4;
\* macosx_13_2_arm64 gives the 19 tags of the test.
C7_MajorWalk ==
  ExpansionDone =>
     LET parsed == parse_macosx_tag(platform)
     IN  /\ (~parsed.raised
             /\ TupleLeq(<<11, 0>>, <<parsed.value[1], parsed.value[2]>>)) =>
               out = MajorsDown(parsed.value[1], parsed.value[3])
                     \o (IF parsed.value[3] = s_x86_64
                         THEN MinorsDown(16, 4, s_x86_64)
                         ELSE [k \in 1..13 |->
                                 s_macosx \o <<"_", "1", "0", "_">> \o str(17 - k)
                                 \o <<"_">> \o s_universal2])
         /\ platform = Tag_13_2_arm64 => ToSet(out) = Test_13_2_arm64

C7_Witness ==
  /\ ExpansionDone
  /\ platform = Tag_13_2_arm64
  /\ Len(out) = 19

\* the table of C8: the suffixes of an architecture inside its version window
C8_Table(v, arch) ==
  IF arch = s_x86_64 /\ TupleLeq(<<10, 4>>, v)
  THEN <<TRUE, <<s_x86_64, s_intel, s_fat64, s_fat32, s_universal2, s_universal>>>>
  ELSE IF arch = s_i386 /\ TupleLeq(<<10, 4>>, v)
  THEN <<TRUE, <<s_i386, s_intel, s_fat32, s_fat, s_universal>>>>
  ELSE IF arch = s_ppc64 /\ TupleLeq(<<10, 4>>, v) /\ TupleLeq(v, <<10, 5>>)
  THEN <<TRUE, <<s_ppc64, s_fat64, s_universal>>>>
  ELSE IF arch = s_ppc /\ TupleLeq(v, <<10, 6>>)
  THEN <<TRUE, <<s_ppc, s_fat32, s_fat, s_universal>>>>
  ELSE IF arch = s_arm64 THEN <<TRUE, <<s_arm64, s_universal2>>>>
  ELSE IF arch = s_intel THEN <<TRUE, <<s_intel, s_universal>>>>
  ELSE IF arch \notin {s_x86_64, s_i386, s_ppc64, s_ppc} THEN <<TRUE, <<arch>>>>
  ELSE <<FALSE, <<>>>>

\* C8: inside the architecture's version window _mac_binary_formats returns
\* exactly the table's suffixes in order, then universal2 for arm64 and
\* x86_64, then universal for x86_64, i386, ppc64, ppc and intel.
C8_FormatsInWindow ==
  (call = "mac_binary_formats" /\ pc = "returned") =>
     (C8_Table(version_tuple, cpu_arch)[1] =>
         ret = C8_Table(version_tuple, cpu_arch)[2])

C8_Witness ==
  /\ call = "mac_binary_formats" /\ pc = "returned"
  /\ cpu_arch = s_ppc64 /\ version_tuple = <<10, 5>>
  /\ ret = <<s_ppc64, s_fat64, s_universal>>

\* C9: a second call of _iter_supported_tags or of platform_iterator with
\* the same arguments yields, element for element and in the same order,
\* what the first call yielded, and ends as the first call ended.
C9_Restartable ==
  (call \in {"iter_supported_tags", "platform_iterator"} /\ calls > 1) =>
     /\ Len(out) <= Len(prev[3])
     /\ out = SubSeq(prev[3], 1, Len(out))
     /\ pc \in {"returned", "raised"} => <<pc, ret, out>> = prev

C9_Witness ==
  /\ TagsCall /\ calls = 2 /\ pc = "returned"
  /\ impl = s_cp /\ version = v26 /\ platform = r_macosx_10_4
  /\ Len(out) = 160
  /\ out = prev[3]

\* C10: when the normalized platform starts with 'macosx' and fails macOS
\* parsing, _iter_supported_tags ends in the invalid tag error at its first
\* next(), having emitted no tuple; for a platform that does not start with
\* 'macosx' it never ends in that error.
C10_ErrorPropagates ==
  (TagsCall /\ pc # "ready") =>
     LET tag == translate_platform_to_tag(platform)
     IN  /\ (startswith(tag, s_macosx) /\ parse_macosx_tag(tag).raised) =>
               pc = "raised" /\ out = <<>>
         /\ ~startswith(platform, s_macosx) => pc # "raised"

C10_Witness ==
  /\ TagsCall /\ pc = "raised" /\ out = <<>>
  /\ platform = r_macosx_10_0

\* the tuples emitted with a specific ABI, in order
C11_SpecificGroup ==
  LET IsSpecific(tuple) == tuple[2] # s_none
  IN  SelectSeq(out, IsSpecific)

\* impl is 'cp' and the version tag starts with '2' or '3'
C11_PredictsAbis == impl = s_cp /\ version[1] \in {"2", "3"}

\* cp<ver>, cp<ver>dmu, cp<ver>dm, cp<ver>du, cp<ver>d, cp<ver>mu, cp<ver>m,
\* cp<ver>u, and abi3 when the version starts with '3'
C11_AbiList ==
  [k \in 1..8 |->
     <<"c", "p">> \o version
     \o << <<>>, <<"d", "m", "u">>, <<"d", "m">>, <<"d", "u">>, <<"d">>,
           <<"m", "u">>, <<"m">>, <<"u">> >>[k]]
  \o (IF version[1] = "3" THEN << <<"a", "b", "i", "3">> >> ELSE <<>>)

\* C11 as stated: specific-ABI tuples are emitted if and only if impl is 'cp'
\* and the version starts with '2' or '3'.
C11_AsStated ==
  (TagsCall /\ pc = "returned") =>
     ((Len(C11_SpecificGroup) > 0) = C11_PredictsAbis)

\* C11 (amended): specific-ABI tuples are emitted if and only if impl is
\* 'cp', the version starts with '2' or '3' and the platform expansion is not
\* empty; then each expanded platform, in order, gets the eight cp<ver>...
\* ABIs in the listed order, followed by abi3 exactly when the version starts
\* with '3'. For every other implementation every tuple has ABI 'none'.
C11_SpecificAbis ==
  (TagsCall /\ pc = "returned") =>
     LET P == NormalizedExpansion.value
     IN  /\ (Len(C11_SpecificGroup) > 0) = (C11_PredictsAbis /\ Len(P) > 0)
         /\ C11_PredictsAbis =>
               C11_SpecificGroup =
                  Flatten([k \in 1..Len(P) |->
                             [a \in 1..Len(C11_AbiList) |->
                                <<impl \o version, C11_AbiList[a], P[k]>>]])
         /\ impl # s_cp => \A j \in 1..Len(out) : out[j][2] = s_none

C11_Witness ==
  /\ TagsCall /\ pc = "returned"
  /\ impl = s_cp /\ version = v312 /\ platform = s_linux_raw
  /\ Len(C11_SpecificGroup) = 9
  /\ C11_SpecificGroup[9] = <<s_cp \o v312, s_abi3, s_linux_x86_64>>

FormatsDone == call = "mac_binary_formats" /\ pc = "returned"

\* the version lies outside the window the table gives the architecture
C14_OutsideWindow(v, arch) ==
  \/ arch \in {s_x86_64, s_i386} /\ TupleLess(v, <<10, 4>>)
  \/ arch = s_ppc64 /\ (TupleLess(v, <<10, 4>>) \/ TupleLess(<<10, 5>>, v))
  \/ arch = s_ppc /\ TupleLess(<<10, 6>>, v)

\* C14 as stated: for every version the result for x86_64, i386, ppc64, ppc
\* and intel contains 'universal' and the result for arm64 and x86_64
\* contains 'universal2'.
C14_AsStated ==
  FormatsDone =>
     /\ cpu_arch \in {s_x86_64, s_i386, s_ppc64, s_ppc, s_intel} =>
           s_universal \in ToSet(ret)
     /\ cpu_arch \in {s_arm64, s_x86_64} => s_universal2 \in ToSet(ret)

\* C14 (amended): outside an architecture's version window the resolver
\* returns the empty list, without the universal suffixes; inside the window
\* (and for arm64 and intel at every version) the result contains
\* 'universal' for x86_64, i386, ppc64, ppc, intel and 'universal2' for
\* arm64, x86_64.
C14_EmptyOutsideWindow ==
  FormatsDone =>
     IF C14_OutsideWindow(version_tuple, cpu_arch)
     THEN ret = <<>>
     ELSE /\ cpu_arch \in {s_x86_64, s_i386, s_ppc64, s_ppc, s_intel} =>
                s_universal \in ToSet(ret)
          /\ cpu_arch \in {s_arm64, s_x86_64} => s_universal2 \in ToSet(ret)

C14_Witness ==
  /\ FormatsDone
  /\ cpu_arch = s_ppc /\ version_tuple = <<10, 7>>
  /\ ret = <<>>

Tag_10_7_ppc64 == s_macosx \o <<"_", "1", "0", "_", "7", "_">> \o s_ppc64

\* the (major, minor) version an emitted platform tag encodes
C15_VersionOf(tag) ==
  LET parsed == parse_macosx_tag(tag)
  IN  <<parsed.value[1], parsed.value[2]>>

\* the version steps of the walk for a parsed version, in the order walked
C15_Steps(v) ==
  IF TupleLess(v, <<10, 0>>) THEN <<>>
  ELSE IF TupleLess(v, <<11, 0>>) THEN [k \in 1..(v[2] + 1) |-> <<10, v[2] + 1 - k>>]
  ELSE [k \in 1..(v[1] - 10) |-> <<v[1] + 1 - k, 0>>]
       \o [k \in 1..13 |-> <<10, 17 - k>>]

\* the tags one step contributes
C15_StepTags(v, step, arch) ==
  IF TupleLeq(<<11, 0>>, v) /\ step[1] = 10 /\ arch # s_x86_64
  THEN <<s_macosx \o <<"_", "1", "0", "_">> \o str(step[2]) \o <<"_">> \o s_universal2>>
  ELSE TagsAt(step[1], step[2], arch)

\* C15 as stated: once a step of the walk yields an empty format list, no
\* tag is emitted for that step or for any later step.
C15_AsStated ==
  ExpansionDone =>
     LET parsed == parse_macosx_tag(platform)
     IN  ~parsed.raised =>
           LET v == <<parsed.value[1], parsed.value[2]>>
               steps == C15_Steps(v)
           IN  \A i \in 1..Len(steps) :
                  C15_StepTags(v, steps[i], parsed.value[3]) = <<>> =>
                     \A j \in 1..Len(out) :
                        \A l \in i..Len(steps) : C15_VersionOf(out[j]) # steps[l]

\* C15 (amended): an empty format list only skips its own step: for every
\* step of the walk, the emitted tags that encode the step's version are
\* exactly the step's own tags, whatever the earlier steps resolved to;
\* macosx_10_7_ppc64, whose steps 10.7 and 10.6 resolve to the empty list,
\* still yields the three tags of 10.5 and the three tags of 10.4.
C15_EmptyStepSkipped ==
  ExpansionDone =>
     LET parsed == parse_macosx_tag(platform)
     IN  /\ ~parsed.raised =>
              LET v == <<parsed.value[1], parsed.value[2]>>
                  steps == C15_Steps(v)
              IN  \A i \in 1..Len(steps) :
                     LET AtStep(tag) == C15_VersionOf(tag) = steps[i]
                     IN  SelectSeq(out, AtStep) = C15_StepTags(v, steps[i], parsed.value[3])
         /\ platform = Tag_10_7_ppc64 =>
              out = [k \in 1..6 |->
                       s_macosx \o <<"_", "1", "0", "_">>
                       \o (IF k <= 3 THEN <<"5">> ELSE <<"4">>) \o <<"_">>
                       \o <<s_ppc64, s_fat64, s_universal>>[((k - 1) % 3) + 1]]

C15_Witness ==
  /\ ExpansionDone
  /\ platform = Tag_10_7_ppc64
  /\ Len(out) = 6

\* C16: along the expansion of a parsed macOS tag the (major, minor) version
\* the emitted tags encode never increases, and no emitted tag encodes a
\* version above the input's.  Every prefix of the sequence is a state of
\* the generator, so the last emitted tag is compared with its predecessor.
C16_VersionsDescend ==
  (call = "platform_iterator" /\ Len(out) > 0) =>
     LET parsed == parse_macosx_tag(platform)
         n == Len(out)
     IN  ~parsed.raised =>
           /\ TupleLeq(C15_VersionOf(out[n]), <<parsed.value[1], parsed.value[2]>>)
           /\ n > 1 => TupleLeq(C15_VersionOf(out[n]), C15_VersionOf(out[n - 1]))

C16_Witness ==
  /\ ExpansionDone
  /\ platform = Tag_13_2_arm64
  /\ C15_VersionOf(out[1]) = <<13, 0>>
  /\ C15_VersionOf(out[6]) = <<11, 0>>
  /\ C15_VersionOf(out[7]) = <<10, 16>>
  /\ C15_VersionOf(out[Len(out)]) = <<10, 4>>

\* C17: for an implementation other than 'py' and a platform other than
\* 'any', _iter_supported_tags never emits a tuple it has emitted before, and
\* the macOS expansion never yields a tag it has yielded before.  Every
\* prefix of either sequence is a state of its generator, so the last
\* element is compared with all the earlier ones.
C17_NoDuplicates ==
  /\ (TagsCall /\ impl # s_py /\ platform # s_any /\ Len(out) > 0) =>
        \A j \in 1..(Len(out) - 1) : out[j] # out[Len(out)]
  /\ (call = "platform_iterator" /\ Len(out) > 0) =>
        \A j \in 1..(Len(out) - 1) : out[j] # out[Len(out)]

C17_Witness ==
  /\ TagsCall /\ pc = "returned"
  /\ impl = s_cp /\ version = v26 /\ platform = r_macosx_11_0
  /\ Len(out) > Len(NormalizedExpansion.value)
  /\ Cardinality(ToSet(out)) = Len(out)

\* C18: a well-formed macOS tag whose version is below (10, 0) expands to
\* the empty sequence without an error, and _iter_supported_tags then emits
\* only tuples with ABI 'none' and platform 'any'; a tag whose version is
\* (11, 0) or later expands, for every architecture, to a sequence that has
\* a tag of each of the 13 versions 10.16 .. 10.4.
C18_EmptyBelowTen ==
  /\ call = "platform_iterator" =>
        LET parsed == parse_macosx_tag(platform)
        IN  ~parsed.raised =>
              LET v == <<parsed.value[1], parsed.value[2]>>
              IN  /\ pc # "raised"
                  /\ TupleLess(v, <<10, 0>>) => out = <<>>
                  /\ (pc = "returned" /\ TupleLeq(<<11, 0>>, v)) =>
                        /\ \A k \in 4..16 :
                              \E j \in 1..Len(out) : C15_VersionOf(out[j]) = <<10, k>>
                        /\ Len(out) >= 13
  /\ TagsCall =>
        LET parsed == parse_macosx_tag(translate_platform_to_tag(platform))
        IN  (~parsed.raised
             /\ TupleLess(<<parsed.value[1], parsed.value[2]>>, <<10, 0>>)) =>
               /\ pc # "raised"
               /\ \A j \in 1..Len(out) : out[j][2] = s_none /\ out[j][3] = s_any

C18_Witness ==
  /\ TagsCall /\ pc = "returned"
  /\ platform = r_macosx_9_5 /\ impl = s_cp /\ version = v26
  /\ Len(out) > 0
  /\ \A j \in 1..Len(out) : out[j][3] = s_any

Tag_11_0_x86_64 == s_macosx \o <<"_", "1", "1", "_", "0", "_">> \o s_x86_64

\* the older versions C19 speaks of: 10.m with m <= 16, or 11.0 and later
C19_OlderVersions ==
  {<<10, m>> : m \in 0..16} \cup ((11..MaxMajor) \X (0..MaxMinor))

\* the set of tags the expansion of version v for x86_64 yields
C19_ExpansionOf(v) ==
  ToSet(platform_iterator(s_macosx \o <<"_">> \o str(v[1]) \o <<"_">> \o str(v[2])
                          \o <<"_">> \o s_x86_64).value)

\* C19: for x86_64 and versions v1 <= v2, v1 being 10.m with m <= 16 or
\* 11.0 or later, every tag of the expansion of v1 is a tag of the expansion
\* of v2.
C19_Monotone ==
  ExpansionDone =>
     LET parsed == parse_macosx_tag(platform)
     IN  (~parsed.raised /\ parsed.value[3] = s_x86_64) =>
            \A v1 \in C19_OlderVersions :
               TupleLeq(v1, <<parsed.value[1], parsed.value[2]>>) =>
                  C19_ExpansionOf(v1) \subseteq ToSet(out)

C19_Witness ==
  /\ ExpansionDone
  /\ platform = Tag_11_0_x86_64
  /\ C19_ExpansionOf(<<10, 16>>) # {}
  /\ C19_ExpansionOf(<<10, 16>>) \subseteq ToSet(out)

Tag_10_4_x86_64 == s_macosx \o <<"_", "1", "0", "_", "4", "_">> \o s_x86_64

\* C13: translate_platform_to_tag returns, for every platform string, a
\* string of the same length with '_' wherever the argument has '.' or '-'
\* and the argument's character everywhere else; translating the result
\* again changes nothing.  _iter_supported_tags decides whether the platform
\* is a macOS one on the translated string: 'macosx-10.4-x86_64' is parsed
\* and its tuples carry the tags of the expansion of macosx_10_4_x86_64.
C13_Normalizer ==
  /\ (call = "translate_platform_to_tag" /\ pc = "returned") =>
        /\ Len(ret) = Len(platform)
        /\ \A k \in 1..Len(platform) :
              ret[k] = (IF platform[k] \in {".", "-"} THEN "_" ELSE platform[k])
        /\ translate_platform_to_tag(ret) = ret
  /\ (TagsCall /\ pc \notin {"ready", "raised"}) =>
        /\ parser_called = is_macosx_platform(translate_platform_to_tag(platform))
        /\ \A j \in 1..Len(out) :
              \A k \in 1..Len(out[j][3]) : out[j][3][k] \notin {".", "-"}
  /\ (TagsCall /\ pc = "returned" /\ platform = r_macosx_10_4) =>
        /\ parser_called
        /\ \A t \in ToSet(platform_iterator(Tag_10_4_x86_64).value) :
              \E j \in 1..Len(out) : out[j][3] = t

C13_Witness ==
  /\ call = "translate_platform_to_tag" /\ pc = "returned"
  /\ platform = r_macosx_10_4
  /\ ret = Tag_10_4_x86_64

IdentityCall == call = "PEP425.iter_supported_tags"

LowercaseLetters ==
  {"a", "b", "c", "d", "e", "f", "g", "h", "i", "j", "k", "l", "m",
   "n", "o", "p", "q", "r", "s", "t", "u", "v", "w", "x", "y", "z"}

\* s matches ^[a-z]+[0-9]*$
C12_PyverShape(s) ==
  \E n \in 1..Len(s) :
     /\ \A k \in 1..n : s[k] \in LowercaseLetters
     /\ \A k \in (n + 1)..Len(s) : IsDigit(s[k])

\* C12: every tuple iter_supported_tags(identity, platform) emits has a
\* pyver tag of lowercase letters followed by digits and an ABI tag that is
\* 'none', 'abi3' or starts with 'cp', whatever the implementation name of
\* the identity.  Every prefix of the sequence is a state of the generator,
\* so the last emitted tuple is examined.
C12_TupleShape ==
  (IdentityCall /\ Len(out) > 0) =>
     LET last == out[Len(out)]
     IN  /\ C12_PyverShape(last[1])
         /\ \/ last[2] \in {s_none, s_abi3}
            \/ startswith(last[2], s_cp)

\* the emitted pyver tag that breaks the shape: 'None2' for the identity
\* ('Stackless', (2, 6, 5))
C12_FailingInput ==
  /\ IdentityCall
  /\ identity = <<s_Stackless, <<2, 6, 5>>>>
  /\ platform = s_linux_raw
  /\ Len(out) = 9
  /\ out[9] = <<<<"N", "o", "n", "e", "2">>, s_none, s_linux_x86_64>>

\* C20: MonitoringClient.get_default returns a singleton: whatever the
\* interleaving of the calls, at most one MonitoringClient is constructed and
\* every call that has returned has returned that one client.
C20_Singleton ==
  call = "get_default" =>
     /\ constructed <= 1
     /\ \A t, u \in Threads :
           (thread_pc[t] = "returned" /\ thread_pc[u] = "returned") =>
              thread_ret[t] = thread_ret[u]

\* two first calls overlap: both threads pass the test of line 157 before
\* either stores, both construct, and the calls return different clients
C20_TwoClients ==
  /\ call = "get_default"
  /\ constructed = 2
  /\ thread_pc[1] = "returned" /\ thread_pc[2] = "returned"
  /\ thread_ret[1] # thread_ret[2]

====
